---- MODULE Spec2Model ----
(***************************************************************************)
(* Supermarket checkout line: a single-cashier queue simulated with SimPy. *)
(*                                                                         *)
(* The model follows src/supermarket_checkout_line_simulation.py (the     *)
(* module the tests import, variant "main") and its near-duplicate         *)
(* src/supermarket-checkout-line-simulation.py (variant "alt").  The       *)
(* SimPy environment is modelled as the library implements it: a heap of   *)
(* (time, priority, eid, event) tuples, Initialize events of priority      *)
(* URGENT, timeouts and resource events of priority NORMAL, and            *)
(* env.run(until=t) as an URGENT stop event at time t.                     *)
(*                                                                         *)
(* Time is counted in ticks of 0.05 minute, so that events can fall        *)
(* between two samples of the queue monitor: the monitor's 0.1 minute is   *)
(* MonitorInterval = 2 ticks and the 1 of max(env.now, 1) is OneMinute =   *)
(* 20 ticks.  Floating-point rounding is not modelled: times and sums are  *)
(* exact, and quotients are kept as fractions [num, den].                  *)
(***************************************************************************)
EXTENDS Integers, Sequences, FiniteSets, TLC

\* ------------------------------------------------------------------ bounds
\* The longest simulated horizon, in ticks (just above one minute).
MaxDuration == 21
\* The random source returns at most this many variates below Far in one
\* run; every later draw is Far, which ends the arrivals.
MaxDraws == 6

\* ------------------------------------------------------- program constants
MonitorInterval == 2
OneMinute == 10 * MonitorInterval
Capacity == 1
URGENT == 0
NORMAL == 1

\* A variate so large that now + Far lies past every horizon.
Far == 2 * MaxDuration
\* The values random.expovariate draws, before the sign of the rate: none,
\* less than a sampling interval, a whole sampling interval, past the horizon.
Variates == {0, 1, MonitorInterval, Far}
\* The horizons tried: not a multiple of the sampling interval, a multiple
\* of it, and one longer than a minute.
Durations == {3, 4, MaxDuration}
ArrivalRates == {-1, 0, 1}
ServiceRates == {-1, 0, 1}
Variants == {"main", "alt"}

VARIABLES
    variant,              \* which source file is run
    arrival_rate, service_rate, simulation_duration,
    now,                  \* env.now
    queue,                \* env._queue: the pending events
    eid,                  \* env._eid: the id the next scheduled event gets
    users,                \* cashier.users
    put_queue,            \* cashier.queue (cashier.put_queue)
    nspawned,             \* customer_service processes created so far
    arrival_time,         \* customer_service's local arrival_time
    cpc,                  \* position of each customer_service process
    waiting_times, queue_lengths, queue_length_times,
    cashier_busy_time, max_queue_length,
    served,               \* history: the customer behind each waiting_times entry
    service_times,        \* history: the service time drawn for each of them
    drawn,                \* history: the variates drawn in this run, in order
    trace,                \* history: the events delivered in this run, in order
    seed,                 \* a seeded random source: the variates it returns next
    pc,                   \* position of run_simulation
    error,                \* the exception run_simulation ended with
    stats,                \* the summary run_simulation returned
    mode,                 \* "single" run, or a "record"ed run and its "replay"
    first,                \* replay: how the recorded run ended
    arrival_rates, num_runs,   \* the arguments of run_multiple_simulations
    idx,                  \* its position in arrival_rates
    run_stats, results,
    mpc,                  \* position of run_multiple_simulations
    calls                 \* history: the calls of run_simulation it made,
                          \* each with the summary it returned

simvars == <<now, queue, eid, users, put_queue, nspawned, arrival_time, cpc,
             waiting_times, queue_lengths, queue_length_times,
             cashier_busy_time, max_queue_length, served, service_times, drawn,
             trace, seed>>
params == <<variant, arrival_rate, service_rate, simulation_duration>>
replayvars == <<mode, first>>
rngvars == <<drawn, seed>>
batchvars == <<arrival_rates, num_runs, idx, run_stats, results, mpc, calls>>
vars == <<params, simvars, pc, error, stats, replayvars, batchvars>>

\* ---------------------------------------------------------------- helpers
Customers == 1..MaxDraws

RECURSIVE Sum(_)
Sum(s) == IF s = <<>> THEN 0 ELSE Head(s) + Sum(Tail(s))

MaxKeepsFirst(a, b) == a
Max(a, b) == IF a >= b THEN a ELSE b

Frac(n, d) == [num |-> n, den |-> d]
Zero == Frac(0, 1)
\* Comparison of fractions with positive denominators.
FracEq(x, y) == x.num * y.den = y.num * x.den
FracLe(x, y) == x.num * y.den <= y.num * x.den

Remove(s, c) == SelectSeq(s, LAMBDA x : x # c)

\* statistics.mean of a sequence of numbers.
Mean(s) == Frac(Sum(s), Len(s))

\* --------------------------------------------------------- the environment
Event(t, p, id, k, c, x) ==
    [time |-> t, prio |-> p, eid |-> id, kind |-> k, proc |-> c, exc |-> x]

\* The order without the insertion counter: events of one time and priority
\* are not ordered.
KeyLeNoEid(e, f) ==
    \/ e.time < f.time
    \/ e.time = f.time /\ e.prio <= f.prio

\* The order of scheduling alone: the priority is ignored.
KeyLeScheduledOrder(e, f) ==
    \/ e.time < f.time
    \/ e.time = f.time /\ e.eid <= f.eid

\* heapq orders the tuples (time, priority, eid, event) lexicographically.
KeyLe(e, f) ==
    \/ e.time < f.time
    \/ e.time = f.time /\ e.prio < f.prio
    \/ e.time = f.time /\ e.prio = f.prio /\ e.eid <= f.eid

\* The events heappop can return.
Earliest(q) == {e \in q : \A f \in q : KeyLe(e, f)}

\* Environment.step up to the callbacks, for the popped event ev: dispatch on
\* its kind, advance now.
Pop(ev, kinds) ==
    /\ pc = "run"
    /\ ev.kind \in kinds
    /\ now' = ev.time
    /\ trace' = Append(trace, <<ev.time, ev.kind, ev.proc, ev.prio, ev.eid>>)

\* random.expovariate(lambd) = -log(1 - random()) / lambd: a division by zero
\* for lambd = 0, a value >= 0 for lambd > 0 and a value <= 0 for lambd < 0.
\* v is the variate -log(1 - random()); the size of the rate is not modelled.
ExpovariateNeverRaises(lambd) == FALSE
ExpovariateRaises(lambd) == lambd = 0
Expovariate(lambd, v) == IF lambd > 0 THEN v ELSE -v

\* The random source yields the variate v = -log(1 - random()).  Unseeded, any
\* value may come; seeded, the values come from the seed's stream in order
\* (and past the part of the stream that is modelled, Far).
Seeded == mode \in {"replay", "batch"}
Random(v) ==
    /\ IF Seeded
       THEN /\ v = IF seed # <<>> THEN Head(seed) ELSE Far
            /\ seed' = IF seed # <<>> THEN Tail(seed) ELSE seed
       ELSE /\ v \in IF Len(drawn) < MaxDraws THEN Variates ELSE {Far}
            /\ seed' = seed
    /\ drawn' = Append(drawn, v)

\* BaseResource._trigger_put with Resource._do_put: only the head of the put
\* queue is tried, and it is granted when a slot is free.
TriggerPutNever(u, pq) == [users |-> u, put_queue |-> pq, granted |-> 0]
TriggerPutUnguarded(u, pq) ==
    IF pq # <<>>
    THEN [users |-> Append(u, Head(pq)), put_queue |-> Tail(pq), granted |-> Head(pq)]
    ELSE [users |-> u, put_queue |-> pq, granted |-> 0]
TriggerPutLast(u, pq) ==
    IF pq # <<>> /\ Len(u) < Capacity
    THEN [users |-> Append(u, pq[Len(pq)]), put_queue |-> SubSeq(pq, 1, Len(pq) - 1),
          granted |-> pq[Len(pq)]]
    ELSE [users |-> u, put_queue |-> pq, granted |-> 0]
TriggerPut(u, pq) ==
    IF pq # <<>> /\ Len(u) < Capacity
    THEN [users |-> Append(u, Head(pq)), put_queue |-> Tail(pq), granted |-> Head(pq)]
    ELSE [users |-> u, put_queue |-> pq, granted |-> 0]

\* The stop event behind every event of its time.
InitialQueueStopsLast(d) ==
    { Event(0, URGENT, 0, "InitArrivals", 0, ""),
      Event(0, URGENT, 1, "InitMonitor", 0, ""),
      Event(d, NORMAL + 1, 2, "Until", 0, "") }

\* No stop event: the run goes on until no event is left.
InitialQueueNoStop(d) ==
    { Event(0, URGENT, 0, "InitArrivals", 0, ""),
      Event(0, URGENT, 1, "InitMonitor", 0, "") }

\* The stop event one sampling interval past the horizon.
InitialQueueStopsLate(d) ==
    { Event(0, URGENT, 0, "InitArrivals", 0, ""),
      Event(0, URGENT, 1, "InitMonitor", 0, ""),
      Event(d + MonitorInterval, URGENT, 2, "Until", 0, "") }

\* SupermarketCheckout.__init__ and env.run(until=simulation_duration): the
\* two Initialize events, then the stop event.
InitialQueue(d) ==
    { Event(0, URGENT, 0, "InitArrivals", 0, ""),
      Event(0, URGENT, 1, "InitMonitor", 0, ""),
      Event(d, URGENT, 2, "Until", 0, "") }

NoStats == [avg_waiting_time |-> Zero, cashier_utilization |-> Zero,
            max_queue_length |-> 0, avg_queue_length |-> Zero,
            total_customers |-> 0]

NoOutcome == [pc |-> "", error |-> "", stats |-> NoStats, trace |-> <<>>,
              drawn |-> <<>>]

\* run_multiple_simulations is not running.
NoBatch ==
    /\ arrival_rates = <<>>
    /\ num_runs = 0
    /\ idx = 0
    /\ run_stats = <<>>
    /\ results = <<>>
    /\ mpc = "none"
    /\ calls = <<>>

SimInit ==
    /\ now = 0
    /\ eid = 3
    /\ users = <<>>
    /\ put_queue = <<>>
    /\ nspawned = 0
    /\ arrival_time = [c \in Customers |-> 0]
    /\ cpc = [c \in Customers |-> "unborn"]
    /\ waiting_times = <<>>
    /\ queue_lengths = <<>>
    /\ queue_length_times = <<>>
    /\ cashier_busy_time = 0
    /\ max_queue_length = 0
    /\ served = <<>>
    /\ service_times = <<>>
    /\ drawn = <<>>
    /\ trace = <<>>

Init ==
    /\ variant \in Variants
    /\ arrival_rate \in ArrivalRates
    /\ service_rate \in ServiceRates
    /\ simulation_duration \in Durations
    /\ queue = InitialQueue(simulation_duration)
    /\ SimInit
    /\ pc = "run"
    /\ error = ""
    /\ stats = NoStats
    /\ mode = "single"
    /\ seed = <<>>
    /\ first = NoOutcome
    /\ NoBatch

\* ------------------------------------------------------- customer_arrivals
\* The rest of a resumption of customer_arrivals, from the loop test on: base
\* is the heap without the popped event, k the next eid.
\* src/supermarket-checkout-line-simulation.py: the draw comes first, so a
\* rate of 0 divides by zero and a negative delay is refused by env.timeout.
ArrivalsLoopAlt(base, k) ==
    /\ eid' = k + 1
    /\ IF ExpovariateRaises(arrival_rate)
       THEN /\ UNCHANGED rngvars
            /\ queue' = base \cup {Event(now', NORMAL, k, "Process", 0, "ZeroDivisionError")}
       ELSE \E v \in Variates :
               /\ Random(v)
               /\ queue' = base \cup
                    {IF Expovariate(arrival_rate, v) < 0
                     THEN Event(now', NORMAL, k, "Process", 0, "ValueError")
                     ELSE Event(now' + Expovariate(arrival_rate, v), NORMAL, k,
                                "ArrivalTimeout", 0, "")}

ArrivalsLoopUntested(base, k) == ArrivalsLoopAlt(base, k)

\* src/supermarket_checkout_line_simulation.py: the rate is tested before the
\* draw, and a rate <= 0 ends the generator.
ArrivalsLoop(base, k) ==
    /\ eid' = k + 1
    /\ IF now' <= simulation_duration /\ arrival_rate > 0
       THEN \E v \in Variates :
               /\ Random(v)
               /\ queue' = base \cup
                    {Event(now' + Expovariate(arrival_rate, v), NORMAL, k,
                           "ArrivalTimeout", 0, "")}
       ELSE /\ UNCHANGED rngvars
            /\ queue' = base \cup {Event(now', NORMAL, k, "Process", 0, "")}

\* env.process(self.customer_service()): a new process and its Initialize.
Spawn(n, k) == Event(now', URGENT, k, "InitCustomer", n, "")

ServiceUnchanged ==
    UNCHANGED <<users, put_queue, arrival_time, waiting_times, served, service_times,
                cashier_busy_time>>
MonitorUnchanged == UNCHANGED <<queue_lengths, queue_length_times, max_queue_length>>
RunUnchanged == UNCHANGED <<params, pc, error, stats, replayvars, batchvars>>

\* The Initialize event of customer_arrivals: the generator runs to its first
\* yield.
CustomerArrivalsStart ==
    \E ev \in Earliest(queue) :
        /\ Pop(ev, {"InitArrivals"})
        /\ variant = "main"
        /\ ArrivalsLoop(queue \ {ev}, eid)
        /\ UNCHANGED <<nspawned, cpc>>
        /\ ServiceUnchanged /\ MonitorUnchanged /\ RunUnchanged

\* The inter-arrival timeout fires: spawn a customer, then loop.
CustomerArrivalsResume ==
    \E ev \in Earliest(queue) :
        /\ Pop(ev, {"ArrivalTimeout"})
        /\ variant = "main"
        /\ nspawned' = nspawned + 1
        /\ cpc' = [cpc EXCEPT ![nspawned + 1] = "init"]
        /\ ArrivalsLoop((queue \ {ev}) \cup {Spawn(nspawned + 1, eid)}, eid + 1)
        /\ ServiceUnchanged /\ MonitorUnchanged /\ RunUnchanged

CustomerArrivalsAltStart ==
    \E ev \in Earliest(queue) :
        /\ Pop(ev, {"InitArrivals"})
        /\ variant = "alt"
        /\ ArrivalsLoopAlt(queue \ {ev}, eid)
        /\ UNCHANGED <<nspawned, cpc>>
        /\ ServiceUnchanged /\ MonitorUnchanged /\ RunUnchanged

\* The horizon is tested after the timeout and before the spawn.
CustomerArrivalsAltResume ==
    \E ev \in Earliest(queue) :
        /\ Pop(ev, {"ArrivalTimeout"})
        /\ variant = "alt"
        /\ IF now' > simulation_duration
           THEN /\ queue' = (queue \ {ev}) \cup {Event(now', NORMAL, eid, "Process", 0, "")}
                /\ eid' = eid + 1
                /\ UNCHANGED <<nspawned, cpc, rngvars>>
           ELSE /\ nspawned' = nspawned + 1
                /\ cpc' = [cpc EXCEPT ![nspawned + 1] = "init"]
                /\ ArrivalsLoopAlt((queue \ {ev}) \cup {Spawn(nspawned + 1, eid)},
                                   eid + 1)
        /\ ServiceUnchanged /\ MonitorUnchanged /\ RunUnchanged

\* ------------------------------------------------------------ monitor_queue
\* Both files sample alike: while now <= simulation_duration, record
\* len(cashier.queue) and the time, update the maximum, sleep 0.1 minute.
\* The holder counted with the waiting.
QueueLengthWithHolder == Len(put_queue) + Len(users)

\* len(self.cashier.queue): the requests not yet granted.
QueueLength == Len(put_queue)

MonitorQueue ==
    \E ev \in Earliest(queue) :
        /\ Pop(ev, {"InitMonitor", "MonitorTimeout"})
        /\ eid' = eid + 1
        /\ IF now' <= simulation_duration
           THEN /\ queue_lengths' = Append(queue_lengths, QueueLength)
                /\ queue_length_times' = Append(queue_length_times, now')
                /\ max_queue_length' = Max(max_queue_length, QueueLength)
                /\ queue' = (queue \ {ev}) \cup
                     {Event(now' + MonitorInterval, NORMAL, eid, "MonitorTimeout", 0, "")}
           ELSE /\ MonitorUnchanged
                /\ queue' = (queue \ {ev}) \cup {Event(now', NORMAL, eid, "Process", 0, "")}
        /\ UNCHANGED <<nspawned, cpc, rngvars>>
        /\ ServiceUnchanged /\ RunUnchanged

\* --------------------------------------------------------- customer_service
\* wait_time = self.env.now - arrival_time.
WaitTimeFromStart(arrival, t) == t
WaitTimeSwapped(arrival, t) == arrival - t
WaitTime(arrival, t) == t - arrival

ArrivalsUnchanged == UNCHANGED nspawned

\* The exit without the Release event.
ReleaseAndEndNoRelease(c, exc) ==
    { Event(now', NORMAL, eid + 1, "Process", c, exc) }

\* The events a request's exit from the with block and the end of its
\* generator schedule: Resource.release (the user leaves cashier.users at
\* once, the Release event is scheduled) and then the Process event, which
\* carries the exception when the generator raised.
ReleaseAndEnd(c, exc) ==
    { Event(now', NORMAL, eid, "Release", c, ""),
      Event(now', NORMAL, eid + 1, "Process", c, exc) }

\* The Initialize event of a customer: record the arrival time and request
\* the cashier.  The request joins the put queue and _trigger_put grants the
\* head of that queue if the cashier is free.
CustomerServiceStart ==
    \E ev \in Earliest(queue) :
        /\ Pop(ev, {"InitCustomer"})
        /\ LET c == ev.proc
               r == TriggerPut(users, Append(put_queue, c))
           IN  /\ arrival_time' = [arrival_time EXCEPT ![c] = now']
               /\ cpc' = [cpc EXCEPT ![c] = "waiting"]
               /\ users' = r.users
               /\ put_queue' = r.put_queue
               /\ IF r.granted # 0
                  THEN /\ queue' = (queue \ {ev}) \cup
                            {Event(now', NORMAL, eid, "Request", r.granted, "")}
                       /\ eid' = eid + 1
                  ELSE /\ queue' = queue \ {ev}
                       /\ eid' = eid
        /\ UNCHANGED <<waiting_times, served, service_times, cashier_busy_time, rngvars>>
        /\ ArrivalsUnchanged /\ MonitorUnchanged /\ RunUnchanged

\* The granted request fires: the wait is recorded, the service time is drawn
\* and added to the busy time, and the customer sleeps for it.
CustomerServiceGranted ==
    \E ev \in Earliest(queue) :
        /\ Pop(ev, {"Request"})
        /\ LET c == ev.proc
               raised(exc) ==
                   /\ users' = Remove(users, c)
                   /\ cpc' = [cpc EXCEPT ![c] = "failed"]
                   /\ queue' = (queue \ {ev}) \cup ReleaseAndEnd(c, exc)
                   /\ eid' = eid + 2
           IN  /\ waiting_times' =
                    Append(waiting_times, WaitTime(arrival_time[c], now'))
               /\ served' = Append(served, c)
               /\ IF ExpovariateRaises(service_rate)
                  THEN /\ raised("ZeroDivisionError")
                       /\ UNCHANGED <<cashier_busy_time, service_times, rngvars>>
                  ELSE \E v \in Variates :
                       LET service_time == Expovariate(service_rate, v)
                       IN  /\ Random(v)
                           /\ cashier_busy_time' = cashier_busy_time + service_time
                           /\ service_times' = Append(service_times, service_time)
                           /\ IF service_time < 0
                              THEN raised("ValueError")
                              ELSE /\ users' = users
                                   /\ cpc' = [cpc EXCEPT ![c] = "serving"]
                                   /\ queue' = (queue \ {ev}) \cup
                                        {Event(now' + service_time, NORMAL, eid,
                                               "ServiceTimeout", c, "")}
                                   /\ eid' = eid + 1
        /\ UNCHANGED <<put_queue, arrival_time>>
        /\ ArrivalsUnchanged /\ MonitorUnchanged /\ RunUnchanged

\* The service timeout fires: the with block ends and releases the cashier.
CustomerServiceDone ==
    \E ev \in Earliest(queue) :
        /\ Pop(ev, {"ServiceTimeout"})
        /\ users' = Remove(users, ev.proc)
        /\ cpc' = [cpc EXCEPT ![ev.proc] = "done"]
        /\ queue' = (queue \ {ev}) \cup ReleaseAndEnd(ev.proc, "")
        /\ eid' = eid + 2
        /\ UNCHANGED <<put_queue, arrival_time, waiting_times, served, service_times,
                       cashier_busy_time, rngvars>>
        /\ ArrivalsUnchanged /\ MonitorUnchanged /\ RunUnchanged

\* The Release event fires: its callback _trigger_put grants the head of the
\* put queue.
ReleaseFired ==
    \E ev \in Earliest(queue) :
        /\ Pop(ev, {"Release"})
        /\ LET r == TriggerPut(users, put_queue)
           IN  /\ users' = r.users
               /\ put_queue' = r.put_queue
               /\ IF r.granted # 0
                  THEN /\ queue' = (queue \ {ev}) \cup
                            {Event(now', NORMAL, eid, "Request", r.granted, "")}
                       /\ eid' = eid + 1
                  ELSE /\ queue' = queue \ {ev}
                       /\ eid' = eid
        /\ UNCHANGED <<cpc, arrival_time, waiting_times, served, service_times,
                       cashier_busy_time, rngvars>>
        /\ ArrivalsUnchanged /\ MonitorUnchanged /\ RunUnchanged

\* ------------------------------------------------------------ run_simulation
\* The event of a generator that returned: nothing waits for it.
ProcessEnded ==
    \E ev \in Earliest(queue) :
        /\ Pop(ev, {"Process"})
        /\ ev.exc = ""
        /\ queue' = queue \ {ev}
        /\ UNCHANGED <<eid, cpc, rngvars>>
        /\ ServiceUnchanged /\ ArrivalsUnchanged /\ MonitorUnchanged /\ RunUnchanged

\* The event of a generator that raised: nothing defuses it, so
\* Environment.step re-raises the exception out of env.run and run_simulation.
ProcessFailed ==
    \E ev \in Earliest(queue) :
        /\ Pop(ev, {"Process"})
        /\ ev.exc # ""
        /\ queue' = queue \ {ev}
        /\ pc' = "failed"
        /\ error' = ev.exc
        /\ UNCHANGED <<eid, cpc, rngvars, params, stats, replayvars, batchvars>>
        /\ ServiceUnchanged /\ ArrivalsUnchanged /\ MonitorUnchanged

\* The stop event of env.run(until=simulation_duration) fires: env.run returns.
Until ==
    \E ev \in Earliest(queue) :
        /\ Pop(ev, {"Until"})
        /\ queue' = queue \ {ev}
        /\ pc' = "stopped"
        /\ UNCHANGED <<eid, cpc, rngvars, params, error, stats, replayvars, batchvars>>
        /\ ServiceUnchanged /\ ArrivalsUnchanged /\ MonitorUnchanged

\* np.diff(list(queue_length_times) + [simulation_duration]).
TimeIntervals ==
    [i \in 1..Len(queue_length_times) |->
        (IF i < Len(queue_length_times)
         THEN queue_length_times[i + 1]
         ELSE simulation_duration) - queue_length_times[i]]

StatisticsCountsSpawned ==
    [avg_waiting_time |-> IF waiting_times # <<>> THEN Mean(waiting_times) ELSE Zero,
     cashier_utilization |-> Frac(cashier_busy_time, Max(now, OneMinute)),
     max_queue_length |-> max_queue_length,
     avg_queue_length |-> IF queue_lengths # <<>> THEN Mean(queue_lengths) ELSE Zero,
     total_customers |-> nspawned]

\* get_statistics of src/supermarket_checkout_line_simulation.py.
Statistics ==
    [avg_waiting_time |-> IF waiting_times # <<>> THEN Mean(waiting_times) ELSE Zero,
     cashier_utilization |-> Frac(cashier_busy_time, Max(now, OneMinute)),
     max_queue_length |-> max_queue_length,
     avg_queue_length |-> IF queue_lengths # <<>> THEN Mean(queue_lengths) ELSE Zero,
     total_customers |-> Len(waiting_times)]

GetStatistics ==
    /\ pc = "stopped"
    /\ variant = "main"
    /\ stats' = Statistics
    /\ pc' = "returned"
    /\ UNCHANGED <<params, simvars, error, replayvars, batchvars>>

\* get_statistics of src/supermarket-checkout-line-simulation.py: np.average
\* is given all samples but the last and one weight per sample, and refuses
\* arrays of different shapes.
AverageShapesDiffer == Len(queue_lengths) - 1 # Len(TimeIntervals)

RECURSIVE Dot(_, _, _)
Dot(a, w, n) == IF n = 0 THEN 0 ELSE a[n] * w[n] + Dot(a, w, n - 1)

StatisticsAlt ==
    [avg_waiting_time |-> IF waiting_times # <<>> THEN Mean(waiting_times) ELSE Zero,
     cashier_utilization |-> Frac(cashier_busy_time, Max(now, OneMinute)),
     max_queue_length |-> max_queue_length,
     avg_queue_length |->
        IF queue_lengths # <<>>
        THEN Frac(Dot(queue_lengths, TimeIntervals, Len(queue_lengths) - 1),
                  Sum(TimeIntervals))
        ELSE Zero,
     total_customers |-> Len(waiting_times)]

GetStatisticsAlt ==
    /\ pc = "stopped"
    /\ variant = "alt"
    /\ IF queue_lengths # <<>> /\ AverageShapesDiffer
       THEN /\ pc' = "failed"
            /\ error' = "TypeError"
            /\ stats' = stats
       ELSE /\ pc' = "returned"
            /\ stats' = StatisticsAlt
            /\ error' = error
    /\ UNCHANGED <<params, simvars, replayvars, batchvars>>

Next ==
    \/ CustomerArrivalsStart
    \/ CustomerArrivalsResume
    \/ CustomerArrivalsAltStart
    \/ CustomerArrivalsAltResume
    \/ MonitorQueue
    \/ CustomerServiceStart
    \/ CustomerServiceGranted
    \/ CustomerServiceDone
    \/ ReleaseFired
    \/ ProcessEnded
    \/ ProcessFailed
    \/ Until
    \/ GetStatistics
    \/ GetStatisticsAlt

Spec == Init /\ [][Next]_vars

\* env.run steps as long as an event is pending and run_simulation then calls
\* get_statistics: a step that can be taken is taken.
\* The runs in which customers arrive and no service time is negative, with
\* the shorter horizons.
InitLive ==
    /\ Init
    /\ arrival_rate > 0
    /\ service_rate >= 0
    /\ simulation_duration < MaxDuration

SpecLive == InitLive /\ [][Next]_vars /\ WF_vars(Next)

\* The state SupermarketCheckout.__init__ and env.run set up, as the next
\* state of a step that calls run_simulation again.
SimReset ==
    /\ now' = 0
    /\ eid' = 3
    /\ queue' = InitialQueue(simulation_duration)
    /\ users' = <<>>
    /\ put_queue' = <<>>
    /\ nspawned' = 0
    /\ arrival_time' = [c \in Customers |-> 0]
    /\ cpc' = [c \in Customers |-> "unborn"]
    /\ waiting_times' = <<>>
    /\ queue_lengths' = <<>>
    /\ queue_length_times' = <<>>
    /\ cashier_busy_time' = 0
    /\ max_queue_length' = 0
    /\ served' = <<>>
    /\ service_times' = <<>>
    /\ drawn' = <<>>
    /\ trace' = <<>>
    /\ pc' = "run"
    /\ error' = ""
    /\ stats' = NoStats

\* ------------------------------------------------- run_multiple_simulations
FracAdd(x, y) == Frac(x.num * y.den + y.num * x.den, x.den * y.den)

RECURSIVE FracSum(_)
FracSum(s) == IF s = <<>> THEN Zero ELSE FracAdd(Head(s), FracSum(Tail(s)))

\* statistics.mean over the runs of one field that is itself a quotient.
MeanOfFracs(s) == Frac(FracSum(s).num, FracSum(s).den * Len(s))

Field(rs, f) == [i \in 1..Len(rs) |-> rs[i][f]]

\* The entry with the first run's values in place of the means.
AveragedFirstRun(rate, rs) ==
    [arrival_rate |-> rate,
     service_rate |-> service_rate,
     avg_waiting_time |-> rs[1].avg_waiting_time,
     cashier_utilization |-> rs[1].cashier_utilization,
     max_queue_length |-> Frac(rs[1].max_queue_length, 1),
     avg_queue_length |-> rs[1].avg_queue_length,
     total_customers |-> Frac(rs[1].total_customers, 1)]

\* The entry appended to results for one arrival rate.
Averaged(rate, rs) ==
    [arrival_rate |-> rate,
     service_rate |-> service_rate,
     avg_waiting_time |-> MeanOfFracs(Field(rs, "avg_waiting_time")),
     cashier_utilization |-> MeanOfFracs(Field(rs, "cashier_utilization")),
     max_queue_length |-> Mean(Field(rs, "max_queue_length")),
     avg_queue_length |-> MeanOfFracs(Field(rs, "avg_queue_length")),
     total_customers |-> Mean(Field(rs, "total_customers"))]

\* The arrival rate the loop is at.
CurrentRate == arrival_rates[idx]

\* One more call of run_simulation for the current arrival rate.
CallRunSimulation ==
    /\ mode = "batch"
    /\ mpc = "loop"
    /\ pc = "idle"
    /\ idx <= Len(arrival_rates)
    /\ Len(run_stats) < num_runs
    /\ arrival_rate' = CurrentRate
    /\ SimReset
    /\ calls' = Append(calls, [entry |-> idx, arrival_rate |-> CurrentRate,
                                stats |-> NoStats])
    /\ UNCHANGED <<variant, service_rate, simulation_duration, seed, replayvars,
                   arrival_rates, num_runs, idx, run_stats, results, mpc>>

\* run_simulation returned: its summary joins run_stats.
CollectRun ==
    /\ mode = "batch"
    /\ mpc = "loop"
    /\ pc = "returned"
    /\ pc' = "idle"
    /\ run_stats' = Append(run_stats, stats)
    /\ calls' = [calls EXCEPT ![Len(calls)].stats = stats]
    /\ UNCHANGED <<params, simvars, error, stats, replayvars,
                   arrival_rates, num_runs, idx, results, mpc>>

\* All runs of the current arrival rate are in: append their averages.
AppendResult ==
    /\ mode = "batch"
    /\ mpc = "loop"
    /\ pc = "idle"
    /\ idx <= Len(arrival_rates)
    /\ Len(run_stats) = num_runs
    /\ results' = Append(results, Averaged(CurrentRate, run_stats))
    /\ run_stats' = <<>>
    /\ idx' = idx + 1
    /\ UNCHANGED <<params, simvars, pc, error, stats, replayvars,
                   arrival_rates, num_runs, mpc, calls>>

\* The loop over arrival_rates is over: return results.
ReturnResults ==
    /\ mode = "batch"
    /\ mpc = "loop"
    /\ pc = "idle"
    /\ idx > Len(arrival_rates)
    /\ mpc' = "returned"
    /\ UNCHANGED <<params, simvars, pc, error, stats, replayvars,
                   arrival_rates, num_runs, idx, run_stats, results, calls>>

\* An exception of run_simulation is not caught: it ends the batch.
BatchFailed ==
    /\ mode = "batch"
    /\ mpc = "loop"
    /\ pc = "failed"
    /\ mpc' = "failed"
    /\ UNCHANGED <<params, simvars, pc, error, stats, replayvars,
                   arrival_rates, num_runs, idx, run_stats, results, calls>>

\* -------------------------------------------------- a seeded run, run twice
\* random.seed(s); run_simulation(...); random.seed(s); run_simulation(...):
\* the second run is fed the variates of the first.
Reseed ==
    /\ mode = "record"
    /\ pc \in {"returned", "failed"}
    /\ mode' = "replay"
    /\ first' = [pc |-> pc, error |-> error, stats |-> stats, trace |-> trace,
                 drawn |-> drawn]
    /\ seed' = drawn
    /\ SimReset
    /\ UNCHANGED <<params, batchvars>>

\* A run of run_simulation that is recorded and then replayed, with the
\* shorter horizons.
InitDet ==
    /\ variant \in Variants
    /\ arrival_rate \in ArrivalRates
    /\ service_rate \in ServiceRates
    /\ simulation_duration \in Durations \ {MaxDuration}
    /\ queue = InitialQueue(simulation_duration)
    /\ SimInit
    /\ pc = "run"
    /\ error = ""
    /\ stats = NoStats
    /\ mode = "record"
    /\ seed = <<>>
    /\ first = NoOutcome
    /\ NoBatch

NextDet == Next \/ Reseed

SpecDet == InitDet /\ [][NextDet]_vars

\* The arguments run_multiple_simulations is tried with, and the streams of
\* its random source.
RateLists == {<<1>>, <<0, 1>>, <<1, 0>>, <<1, 1>>}
NumRuns == {1, 2}
BatchDuration == 3
BatchDraws == 4
Streams == [1..BatchDraws -> Variates]

InitMulti ==
    /\ variant \in Variants
    /\ arrival_rates \in RateLists
    /\ num_runs \in NumRuns
    /\ service_rate = 1
    /\ simulation_duration = BatchDuration
    /\ seed \in Streams
    /\ arrival_rate = 0
    /\ queue = {}
    /\ SimInit
    /\ pc = "idle"
    /\ error = ""
    /\ stats = NoStats
    /\ mode = "batch"
    /\ first = NoOutcome
    /\ idx = 1
    /\ run_stats = <<>>
    /\ results = <<>>
    /\ mpc = "loop"
    /\ calls = <<>>

NextMulti ==
    \/ Next
    \/ CallRunSimulation
    \/ CollectRun
    \/ AppendResult
    \/ ReturnResults
    \/ BatchFailed

SpecMulti == InitMulti /\ [][NextMulti]_vars

\* ================================================================== claims
One == Frac(1, 1)
NonNegative(x) == x.den > 0 /\ FracLe(Zero, x)
Pending(kind) == {e \in queue : e.kind = kind}
Running == pc \in {"run", "stopped", "returned", "failed"}

\* C1: every summary run_simulation returns for arrival_rate >= 0 and
\* service_rate > 0 has 0 <= cashier_utilization <= 1, also when a customer is
\* still in service at the horizon.
C1_UtilizationWithinUnit ==
    (pc = "returned" /\ arrival_rate >= 0 /\ service_rate > 0) =>
        /\ FracLe(Zero, stats.cashier_utilization)
        /\ FracLe(stats.cashier_utilization, One)

\* C2: in the module the tests import, a run with arrival_rate = 0 and
\* service_rate > 0 never fails and never gets stuck, spawns no customer,
\* samples only empty queues, and returns the all-zero summary.
C2_NoCustomers ==
    (variant = "main" /\ arrival_rate = 0 /\ service_rate > 0 /\ Running) =>
        /\ pc # "failed"
        /\ pc = "run" => ENABLED Next
        /\ nspawned = 0
        /\ \A i \in 1..Len(queue_lengths) : queue_lengths[i] = 0
        /\ pc = "returned" =>
            /\ stats.total_customers = 0
            /\ FracEq(stats.avg_waiting_time, Zero)
            /\ FracEq(stats.cashier_utilization, Zero)
            /\ stats.max_queue_length = 0
            /\ FracEq(stats.avg_queue_length, Zero)

C2_Witness ==
    /\ variant = "main" /\ arrival_rate = 0 /\ service_rate > 0
    /\ pc = "returned"
    /\ Len(queue_lengths) > 1

\* C3: at most one customer holds the cashier: cashier.users never has two
\* entries, at most one customer is in its service timeout, and that customer
\* is the one user.
C3_MutualExclusion ==
    /\ Len(users) <= 1
    /\ Cardinality({c \in Customers : cpc[c] = "serving"}) <= 1
    /\ \A c \in Customers : cpc[c] = "serving" => users = <<c>>

C3_Witness ==
    /\ \E c \in Customers : cpc[c] = "serving"
    /\ Len(put_queue) >= 2
    /\ Pending("MonitorTimeout") # {}

\* C4: customers are granted the cashier in the order they requested it, which
\* is the order they arrived in: the i-th entry of waiting_times is the wait of
\* the i-th customer, from its arrival to the delivery of its grant, and the
\* put queue holds the later arrivals in arrival order.
C4_FifoGrant ==
    /\ Len(served) = Len(waiting_times)
    /\ \A i \in 1..Len(served) :
        /\ served[i] = i
        /\ \E j \in 1..Len(trace) :
            /\ trace[j][2] = "Request" /\ trace[j][3] = i
            /\ waiting_times[i] = trace[j][1] - arrival_time[i]
    /\ \A i \in 1..Len(put_queue) :
        /\ put_queue[i] > Len(served)
        /\ \A u \in 1..Len(users) : put_queue[i] > users[u]
        /\ i > 1 => put_queue[i - 1] < put_queue[i]
    /\ \A c, d \in Customers :
        (c < d /\ cpc[d] \notin {"unborn", "init"}) =>
            /\ cpc[c] \notin {"unborn", "init"}
            /\ arrival_time[c] <= arrival_time[d]

C4_Witness ==
    /\ Len(served) >= 3
    /\ waiting_times[2] > 0
    /\ waiting_times[3] > waiting_times[2]

\* C5 (as claimed): in every reachable state len(waiting_times) is the number
\* of customers spawned minus the number waiting in the cashier queue.
C5_AccountingEveryState ==
    Running => Len(waiting_times) = nspawned - Len(put_queue)

\* C5 (amended): in every reachable state len(waiting_times) is the number of
\* customers that resumed after their grant, which is the number spawned minus
\* those queued and minus those whose Initialize or grant event is still
\* pending at the current time; each customer has at most one sample and a
\* queued customer none; when the run has reached the horizon nothing is
\* pending, so total_customers = len(waiting_times) = spawned - queued.
C5_Accounting ==
    Running =>
        /\ Len(waiting_times) =
               Cardinality({c \in Customers : cpc[c] \in {"serving", "done", "failed"}})
        /\ Len(waiting_times) =
               nspawned - Len(put_queue)
                 - Cardinality(Pending("InitCustomer")) - Cardinality(Pending("Request"))
        /\ \A i, j \in 1..Len(served) : served[i] = served[j] => i = j
        /\ \A i \in 1..Len(put_queue) : \A j \in 1..Len(served) : put_queue[i] # served[j]
        /\ pc \in {"stopped", "returned"} =>
               Len(waiting_times) = nspawned - Len(put_queue)
        /\ pc = "returned" => stats.total_customers = Len(waiting_times)

C5_Witness ==
    /\ pc = "returned"
    /\ put_queue # <<>>
    /\ Len(waiting_times) >= 2

\* The time-weighted average of the samples: each sample weighted by the time
\* to the next one, the last by the time to simulation_duration.
TimeWeightedAverage ==
    IF queue_lengths = <<>>
    THEN Zero
    ELSE Frac(Dot(queue_lengths, TimeIntervals, Len(queue_lengths)), Sum(TimeIntervals))

\* C6: the avg_queue_length get_statistics returns is the time-weighted
\* average of the queue-length samples.  Stated for the module the tests
\* import; get_statistics of the other file returns nothing at all (its
\* np.average call raises, see GetStatisticsAlt).
C6_TimeWeightedAverage ==
    (variant = "main" /\ arrival_rate >= 0 /\ service_rate > 0 /\ pc = "returned") =>
        FracEq(stats.avg_queue_length, TimeWeightedAverage)

C8_SummaryNonNegative ==
    (Running /\ arrival_rate >= 0 /\ service_rate > 0) =>
        /\ \A i \in 1..Len(waiting_times) : waiting_times[i] >= 0
        /\ \A i \in 1..Len(queue_lengths) : queue_lengths[i] >= 0
        /\ cashier_busy_time >= 0
        /\ pc = "returned" =>
            /\ DOMAIN stats = {"avg_waiting_time", "cashier_utilization",
                               "max_queue_length", "avg_queue_length",
                               "total_customers"}
            /\ NonNegative(stats.avg_waiting_time)
            /\ NonNegative(stats.cashier_utilization)
            /\ stats.max_queue_length >= 0
            /\ NonNegative(stats.avg_queue_length)
            /\ stats.total_customers >= 0

C8_Witness ==
    /\ pc = "returned" /\ arrival_rate > 0 /\ service_rate > 0
    /\ stats.avg_waiting_time.num > 0
    /\ stats.max_queue_length > 0
    /\ stats.cashier_utilization.num > 0

\* ---------------------------------------------------------------- C9
\* The calls of run_simulation made for entry i of arrival_rates.
RunsOf(i) ==
    LET Of(c) == c.entry = i
    IN  SelectSeq(calls, Of)

QuotientFields == {"avg_waiting_time", "cashier_utilization", "avg_queue_length"}
CountFields == {"max_queue_length", "total_customers"}

\* The sum of field f over the summaries the calls for entry i returned.
TotalOf(i, f) ==
    LET rs == RunsOf(i)
    IN  FracSum([k \in 1..Len(rs) |->
                    IF f \in CountFields THEN Frac(rs[k].stats[f], 1)
                                         ELSE rs[k].stats[f]])

\* Entry i of results carries arrival_rates[i], comes from exactly num_runs
\* calls with that rate, and each of its fields times num_runs is the sum of
\* the field over those calls.
EntryIsMean(i) ==
    /\ results[i].arrival_rate = arrival_rates[i]
    /\ Len(RunsOf(i)) = num_runs
    /\ \A k \in 1..Len(RunsOf(i)) : RunsOf(i)[k].arrival_rate = arrival_rates[i]
    /\ \A f \in QuotientFields \cup CountFields :
          FracEq(Frac(results[i][f].num * num_runs, results[i][f].den),
                 TotalOf(i, f))

ResultsAreMeans ==
    /\ Len(results) = Len(arrival_rates)
    /\ Len(calls) = num_runs * Len(arrival_rates)
    /\ \A i \in 1..Len(results) : EntryIsMean(i)

PositiveRates == \A i \in 1..Len(arrival_rates) : arrival_rates[i] > 0

\* C9: for num_runs >= 1 and positive arrival rates run_multiple_simulations
\* returns (it does not end in an exception), and what it returns has one
\* entry per element of arrival_rates, in input order, each the field-wise
\* arithmetic mean of exactly num_runs calls of run_simulation with that rate.
C9_BatchAverages ==
    /\ mpc = "returned" => ResultsAreMeans
    /\ PositiveRates => mpc # "failed"

\* The same in the module the tests import only, where no call fails.
C9_BatchAveragesMain ==
    variant = "main" => /\ mpc = "returned" => ResultsAreMeans
                        /\ mpc # "failed"

C9_MainWitness ==
    /\ variant = "main"
    /\ mpc = "returned"
    /\ num_runs = 2
    /\ arrival_rates = <<1, 1>>
    /\ calls[1].stats.total_customers # calls[2].stats.total_customers

\* ---------------------------------------------------------------- C10
IsPrefix(s, t) == Len(s) <= Len(t) /\ s = SubSeq(t, 1, Len(s))

Finished == pc \in {"returned", "failed"}

\* C10: a run fed the variates of an earlier run with the same parameters
\* passes through the same events in the same order, draws the same variates
\* and ends with the same outcome and summary; at every step exactly one event
\* is the next to be processed, also among events of one simulated time.
C10_Determinism ==
    /\ queue # {} => Cardinality(Earliest(queue)) = 1
    /\ mode = "replay" => /\ IsPrefix(trace, first.trace)
                          /\ IsPrefix(drawn, first.drawn)
    /\ (mode = "replay" /\ Finished) =>
          /\ pc = first.pc
          /\ error = first.error
          /\ stats = first.stats
          /\ trace = first.trace

\* A finished replay of a run in which two customers arrived at one time and
\* both were served.
C10_Witness ==
    /\ mode = "replay"
    /\ pc = "returned"
    /\ stats.total_customers >= 2
    /\ arrival_time[1] = arrival_time[2]
    /\ stats = first.stats

\* ---------------------------------------------------------------- C11
Last(s) == s[Len(s)]

\* The number of multiples of MonitorInterval in [0, d).
SamplesBefore(d) == (d + MonitorInterval - 1) \div MonitorInterval

\* C11 as stated: when env.run has returned, no event due at or before the
\* horizon is left undelivered, and with a horizon that is a multiple of the
\* sampling interval the last sample was taken at the horizon.
C11_HorizonInclusive ==
    pc = "stopped" =>
        /\ \A e \in queue : e.time > simulation_duration
        /\ simulation_duration % MonitorInterval = 0 =>
              /\ queue_length_times # <<>>
              /\ Last(queue_length_times) = simulation_duration

\* C11: the run delivers the events due before the horizon and none due at
\* it.  Every event delivered other than the stop event has a time below
\* simulation_duration; when env.run has returned the clock is at the horizon,
\* the stop event was the last one delivered, every event still pending is due
\* at the horizon or later, and the samples are those of the multiples of the
\* sampling interval below the horizon.
C11_HorizonExclusive ==
    /\ \A i \in 1..Len(trace) :
          trace[i][2] # "Until" => trace[i][1] < simulation_duration
    /\ pc = "stopped" =>
          /\ now = simulation_duration
          /\ Last(trace)[2] = "Until"
          /\ \A e \in queue : e.time >= simulation_duration
          /\ Len(queue_length_times) = SamplesBefore(simulation_duration)
          /\ \A i \in 1..Len(queue_length_times) :
                queue_length_times[i] < simulation_duration

\* The run has stopped with a monitor sample and an arrival or a service
\* completion due exactly at the horizon, all undelivered.
C11_Witness ==
    /\ pc = "stopped"
    /\ \E e \in queue : e.kind = "MonitorTimeout" /\ e.time = simulation_duration
    /\ \E e \in queue : /\ e.kind \in {"ArrivalTimeout", "ServiceTimeout"}
                        /\ e.time = simulation_duration

\* ---------------------------------------------------------------- C12
\* The time at which the customer of the i-th wait sample was granted.
GrantTime(i) == arrival_time[served[i]] + waiting_times[i]

\* C12: the clock is 0 until the first event is delivered, is always the time
\* of the last event delivered, never decreases from one delivered event to
\* the next and never exceeds simulation_duration; every sample timestamp and
\* every grant time lies in [0, simulation_duration].
C12_ClockInvariant ==
    /\ 0 <= now /\ now <= simulation_duration
    /\ now = IF trace = <<>> THEN 0 ELSE Last(trace)[1]
    /\ \A i \in 1..Len(trace) - 1 : trace[i][1] <= trace[i + 1][1]
    /\ \A i \in 1..Len(queue_length_times) :
          0 <= queue_length_times[i] /\ queue_length_times[i] <= simulation_duration
    /\ \A i \in 1..Len(served) :
          0 <= GrantTime(i) /\ GrantTime(i) <= simulation_duration

\* The run has stopped at the horizon after the clock advanced more than
\* once and a customer was granted after time 0, with an event scheduled past
\* the horizon left undelivered.
C12_Witness ==
    /\ pc = "stopped"
    /\ now = simulation_duration
    /\ \E e \in queue : e.time > simulation_duration
    /\ \E i \in 1..Len(served) : GrantTime(i) > 0
    /\ \E i, j \in 1..Len(trace) : 0 < trace[i][1] /\ trace[i][1] < trace[j][1]

\* ---------------------------------------------------------------- C13
\* The positions of the trace at which an event of the given kind was
\* delivered.
Delivered(kind) == {i \in 1..Len(trace) : trace[i][2] = kind}

\* C13: in both files no customer_service process is spawned or started at a
\* clock time greater than simulation_duration, every arrival_time recorded is
\* at most simulation_duration, and the customers spawned are those of the
\* inter-arrival timeouts that were delivered: a timeout that expires after
\* the horizon spawns nobody.
C13_NoArrivalAfterHorizon ==
    /\ \A e \in queue : e.kind = "InitCustomer" => e.time <= simulation_duration
    /\ \A i \in Delivered("InitCustomer") : trace[i][1] <= simulation_duration
    /\ \A c \in Customers :
          cpc[c] \notin {"unborn", "init"} => arrival_time[c] <= simulation_duration
    /\ nspawned = Cardinality(Delivered("ArrivalTimeout"))
    /\ \A i \in Delivered("ArrivalTimeout") : trace[i][1] <= simulation_duration

\* The run of the file whose generator does not test the clock after its
\* timeout has stopped, with a customer spawned and the next inter-arrival
\* timeout, started before the horizon, due after it.
C13_Witness ==
    /\ variant = "main"
    /\ pc = "stopped"
    /\ nspawned >= 1
    /\ \E e \in queue : e.kind = "ArrivalTimeout" /\ e.time > simulation_duration

\* ---------------------------------------------------------------- C14
\* C14: with arrival_rate <= 0 the arrival generator of either file ends at
\* time 0: it draws no variate (and, no customer being served, nobody else
\* does), schedules no timeout, spawns no customer and raises no error, and
\* its end is the first thing scheduled after the two processes were started.
C14_ZeroRatePolicy ==
    arrival_rate <= 0 =>
        /\ drawn = <<>>
        /\ \A e \in queue : e.kind # "ArrivalTimeout"
        /\ Delivered("ArrivalTimeout") = {}
        /\ nspawned = 0
        /\ error \notin {"ZeroDivisionError", "ValueError"}
        /\ Delivered("InitArrivals") # {} =>
              \/ \E e \in queue : /\ e.kind = "Process" /\ e.exc = ""
                                  /\ e.time = 0 /\ e.eid = 3
              \/ \E i \in Delivered("Process") : trace[i][1] = 0 /\ trace[i][5] = 3

Requested == {c \in Customers : cpc[c] \notin {"unborn", "init"}}
Granted ==
    {c \in Customers : cpc[c] \in {"serving", "done", "failed"}} \cup
    {e.proc : e \in {f \in queue : f.kind = "Request"}}

\* C16: every step that appends a sample appends the number of customers
\* that have requested the cashier and have not been granted it, which is the
\* number of customers arrived so far minus the number granted so far; the
\* holder of the cashier is among the granted and is not counted.
C16_QueueLengthSampling ==
    [][Len(queue_lengths') = Len(queue_lengths) + 1 =>
          /\ Last(queue_lengths') = Cardinality(Requested \ Granted)
          /\ Last(queue_lengths') = nspawned - Cardinality(Granted)
          /\ \A i \in 1..Len(users) : users[i] \in Granted
          /\ Granted \subseteq Requested]_vars

\* Two customers were sampled waiting behind a third, and a sample was taken
\* between a customer's request and the delivery of its grant.
C16_Witness ==
    /\ \E i \in 1..Len(queue_lengths) : queue_lengths[i] >= 2
    /\ \E i, j, k \in 1..Len(trace) :
          /\ i < j /\ j < k
          /\ trace[i][2] = "InitCustomer"
          /\ trace[j][2] = "MonitorTimeout"
          /\ trace[k][2] = "Request" /\ trace[k][3] = trace[i][3]
          /\ trace[i][1] = trace[k][1]

\* ---------------------------------------------------------------- C17
RECURSIVE MaxOf(_)
MaxOf(s) == IF s = <<>> THEN 0
            ELSE IF Head(s) >= MaxOf(Tail(s)) THEN Head(s) ELSE MaxOf(Tail(s))

\* C17: in every state queue_lengths and queue_length_times have one length,
\* the i-th timestamp is (i - 1) sampling intervals (so they start at 0 and
\* strictly increase by the interval), and max_queue_length is the largest
\* value in queue_lengths, 0 when there is none; every step leaves both
\* sequences as they were or appends to them.
C17_MonitorBookkeeping ==
    /\ [](/\ Len(queue_lengths) = Len(queue_length_times)
          /\ \A i \in 1..Len(queue_length_times) :
                queue_length_times[i] = (i - 1) * MonitorInterval
          /\ max_queue_length = MaxOf(queue_lengths))
    /\ [][/\ IsPrefix(queue_lengths, queue_lengths')
          /\ IsPrefix(queue_length_times, queue_length_times')]_vars

\* Several samples were taken, and the last is below the maximum.
C17_Witness ==
    /\ Len(queue_lengths) >= 4
    /\ max_queue_length >= 2
    /\ Last(queue_lengths) < max_queue_length
    /\ queue_lengths[1] = 0

\* ---------------------------------------------------------------- C18
\* The step delivers an event of the given kind.
Delivers(kind) == Len(trace') = Len(trace) + 1 /\ Last(trace')[2] = kind

RunOver == pc \in {"stopped", "returned", "failed"}

\* C18: a customer that has requested the cashier is eventually resumed with
\* the cashier granted, unless the run ends first: at the horizon, with the
\* cashier held by a customer before it, or by an exception raised from a
\* draw.  The delivery of a release that finds the cashier free and a customer
\* queued makes the head of the queue the holder and schedules its grant for
\* the current time.
C18_NoStarvation ==
    /\ \A c \in Customers :
          (cpc[c] = "waiting") ~>
              \/ cpc[c] \in {"serving", "done", "failed"}
              \/ RunOver /\ users # <<>> /\ users[1] < c
              \/ error \in {"ZeroDivisionError", "ValueError"}
    /\ [][(Delivers("Release") /\ users = <<>> /\ put_queue # <<>>) =>
              /\ users' = <<Head(put_queue)>>
              /\ put_queue' = Tail(put_queue)
              /\ \E e \in queue' : /\ e.kind = "Request" /\ e.proc = Head(put_queue)
                                   /\ e.time = now' /\ now' = now]_vars

\* A customer that waited behind another for a positive time has been
\* granted the cashier, and the run has stopped with a later customer still
\* queued.
C18_Witness ==
    /\ pc = "stopped"
    /\ put_queue # <<>>
    /\ \E i \in 1..Len(served) :
          /\ i > 1 /\ waiting_times[i] > 0
          /\ cpc[served[i]] \in {"serving", "done"}

\* ---------------------------------------------------------------- C19
\* The delay between the arrivals of the customers of wait samples i - 1
\* and i.
Interarrival(i) == arrival_time[served[i]] - arrival_time[served[i - 1]]

\* C19: with a positive service rate the first customer granted waited 0,
\* and each later one waited max(0, previous wait + previous service time -
\* its inter-arrival delay); it was granted at the later of its arrival and
\* the end of the previous customer's service.
C19_WaitRecursion ==
    service_rate > 0 =>
        /\ waiting_times # <<>> => waiting_times[1] = 0
        /\ Len(service_times) = Len(waiting_times)
        /\ \A i \in 2..Len(waiting_times) :
              /\ waiting_times[i] =
                    Max(0, waiting_times[i - 1] + service_times[i - 1] - Interarrival(i))
              /\ GrantTime(i) =
                    Max(arrival_time[served[i]], GrantTime(i - 1) + service_times[i - 1])

\* Three customers were granted: one after a positive wait, and one that
\* arrived after the cashier had been idle for a while, without a wait.
C19_Witness ==
    /\ service_rate > 0
    /\ Len(waiting_times) >= 3
    /\ arrival_time[served[1]] > 0
    /\ \E i \in 2..Len(waiting_times) : waiting_times[i] > 0
    /\ \E i \in 2..Len(waiting_times) :
          /\ waiting_times[i] = 0
          /\ waiting_times[i - 1] + service_times[i - 1] - Interarrival(i) < 0

\* ---------------------------------------------------------------- C20
\* C20 as stated: in every state, a customer waiting in the queue means a
\* customer holds the cashier.
C20_NeverIdleWithQueue == put_queue # <<>> => users # <<>>

\* C20: the cashier is free while a customer waits only between a release
\* and the delivery of its Release event, which is pending for the current
\* time and hands the cashier to the head of the queue; once every event of
\* the current time has been delivered, and when the run has reached the
\* horizon, a waiting customer means a customer holds the cashier.
C20_WorkConservation ==
    /\ (put_queue # <<>> /\ users = <<>>) =>
          \E e \in queue : e.kind = "Release" /\ e.time = now
    /\ (put_queue # <<>> /\ \A e \in queue : e.time > now) => users # <<>>
    /\ (put_queue # <<>> /\ Delivered("Until") # {}) => users # <<>>

\* The cashier has just been released at a time after 0 with two customers
\* queued, the hand-over still to come.
C20_Witness ==
    /\ users = <<>>
    /\ Len(put_queue) >= 2
    /\ now > 0
    /\ \E e \in queue : e.kind = "Release" /\ e.time = now

====
